---- MODULE Spec2Model ----
(***************************************************************************)
(* Secret Santa assignment (secret_santa.py): the history-aware cost       *)
(* model (build_weighted_candidates), the minimum-cost matching solver     *)
(* (find_assignments) and the driver (main) with its history directory.    *)
(*                                                                         *)
(* Person identifiers are the integers 1..NumIds; their order stands for   *)
(* the lexicographic order of the names, which is all that sorted() uses.  *)
(* The cost matrix is a float64 array; the weights here are integers far   *)
(* below 2^53, which float64 holds exactly, so integers model its cells.   *)
(***************************************************************************)
EXTENDS Integers, Sequences, FiniteSets, TLC

\* ------------------------------------------------------------------ bounds
\* Number of person identifiers.
NumIds == 3
\* Size of an input of the two pure functions: the identifiers in the roster's
\* groups, plus the entries of its exclusion lists, plus the history's records,
\* plus the pairs in them.
MaxInputSize == 5
\* Size of a roster the driver is run with (identifiers plus exclusions).
MaxConfigSize == 3
\* Size of the hand-made history the directory starts with (records plus pairs).
MaxSeedSize == 1

Ids == 1..NumIds

\* The sentinel of find_assignments (1e6).
impossible_assignment_weight == 1000000

\* Years a record or a --year argument may carry: the first years of the
\* programme and one year so far away that a single repeat weighs exactly the
\* sentinel.
Years == {2020, 2021, 2020 + impossible_assignment_weight - 1}

\* ------------------------------------------------------------ pure helpers
RECURSIVE insort(_, _)
insort(x, s) ==
    IF s = <<>> THEN <<x>>
    ELSE IF x <= Head(s) THEN <<x>> \o s
    ELSE <<Head(s)>> \o insort(x, Tail(s))

\* sorted(iterable) of Python, on a list of identifiers.
RECURSIVE sorted(_)
sorted(s) == IF s = <<>> THEN <<>> ELSE insort(Head(s), sorted(Tail(s)))

\* tuple(sorted(m["group"])): the group key of a member.
group_key(m) == sorted(m.group)

\* ------------------------------------------------ build_weighted_candidates
\* min(record["year"] for record in history["assignments"]); Python raises
\* ValueError on an empty history, so this is only used on a non-empty one.
min_year(history) ==
    CHOOSE y \in {history[k].year : k \in DOMAIN history} :
        \A k \in DOMAIN history : y <= history[k].year

\* One record's pairs appended to the index (lines 74-75).
RECURSIVE index_record(_, _, _)
index_record(idx, pairs, y) ==
    IF pairs = <<>> THEN idx
    ELSE index_record([idx EXCEPT ![Head(pairs)] = Append(@, y)], Tail(pairs), y)

\* past_assignments_to_year after the loop over the records (lines 70-75):
\* individual (giver, receiver) -> the years of its occurrences, in order.
RECURSIVE past_assignments_to_year(_)
past_assignments_to_year(records) ==
    IF records = <<>> THEN [p \in Ids \X Ids |-> <<>>]
    ELSE LET n == Len(records)
         IN  index_record(past_assignments_to_year(SubSeq(records, 1, n - 1)),
                          records[n].pairs, records[n].year)

\* years_list of lines 92-95: for g in giver_group, for r in receiver_group.
RECURSIVE years_of_receivers(_, _, _)
years_of_receivers(idx, g, rs) ==
    IF rs = <<>> THEN <<>>
    ELSE idx[<<g, Head(rs)>>] \o years_of_receivers(idx, g, Tail(rs))

RECURSIVE years_list(_, _, _)
years_list(idx, gs, rs) ==
    IF gs = <<>> THEN <<>>
    ELSE years_of_receivers(idx, Head(gs), rs) \o years_list(idx, Tail(gs), rs)

\* Lines 97-101 with the oldest year weighing 0 instead of 1.
RECURSIVE weight_of_no_offset(_, _)
weight_of_no_offset(ys, my) ==
    IF ys = <<>> THEN 0 ELSE (Head(ys) - my) + weight_of_no_offset(Tail(ys), my)

\* Lines 97-101.
RECURSIVE weight_of(_, _)
weight_of(ys, my) ==
    IF ys = <<>> THEN 0 ELSE (Head(ys) - my + 1) + weight_of(Tail(ys), my)

\* The inner loop of lines 83-102 over the first k members, for one giver.
RECURSIVE candidate_list(_, _, _, _, _)
candidate_list(giver, members_, k, idx, my) ==
    IF k = 0 THEN <<>>
    ELSE LET prev == candidate_list(giver, members_, k - 1, idx, my)
             giver_group == group_key(giver)
             potential_receiver_group == group_key(members_[k])
         IN  IF giver_group = potential_receiver_group THEN prev
             ELSE IF \E i \in DOMAIN potential_receiver_group :
                        potential_receiver_group[i] \in giver.exclude THEN prev
             ELSE Append(prev, <<potential_receiver_group,
                                 weight_of(years_list(idx, giver_group,
                                                      potential_receiver_group), my)>>)

\* The outer loop of lines 77-104 over the first k members: candidates is a
\* dict keyed by group, so a later member with the same group replaces the
\* earlier member's list.
RECURSIVE candidates_upto(_, _, _, _)
candidates_upto(members_, k, idx, my) ==
    IF k = 0 THEN <<>>
    ELSE (group_key(members_[k]) :>
              candidate_list(members_[k], members_, Len(members_), idx, my))
         @@ candidates_upto(members_, k - 1, idx, my)

build_weighted_candidates(members_, history_) ==
    candidates_upto(members_, Len(members_),
                    past_assignments_to_year(history_), min_year(history_))

\* --------------------------------------------------------- find_assignments
givers_of(members_) == [i \in DOMAIN members_ |-> group_key(members_[i])]

\* list.index: the first position holding the value.
index_of(receivers, receiver) ==
    CHOOSE j \in DOMAIN receivers :
        /\ receivers[j] = receiver
        /\ \A k \in 1..(j - 1) : receivers[k] # receiver

\* Lines 116-118 for one row: the candidates overwrite the sentinel in order.
RECURSIVE cost_row(_, _, _)
cost_row(receivers, cands, k) ==
    IF k = 0 THEN [j \in DOMAIN receivers |-> impossible_assignment_weight]
    ELSE [cost_row(receivers, cands, k - 1)
              EXCEPT ![index_of(receivers, cands[k][1])] = cands[k][2]]

\* Lines 113-118.
cost_matrix_of(members_, candidates_) ==
    LET givers == givers_of(members_)
    IN  [i \in DOMAIN givers |->
            cost_row(givers, candidates_[givers[i]], Len(candidates_[givers[i]]))]

Permutations_(n) == {p \in [1..n -> 1..n] : \A i, j \in 1..n : p[i] = p[j] => i = j}

RECURSIVE perm_cost_upto(_, _, _)
perm_cost_upto(cm, p, k) ==
    IF k = 0 THEN 0 ELSE cm[k][p[k]] + perm_cost_upto(cm, p, k - 1)

perm_cost(cm, p) == perm_cost_upto(cm, p, Len(cm))

\* A solver that returns some permutation, not a cheapest one.
any_assignment(cm) == Permutations_(Len(cm))

\* scipy.optimize.linear_sum_assignment: a column permutation of minimum total
\* cost.  Which of several minimum-cost permutations it returns is left open.
linear_sum_assignment(cm) ==
    {p \in Permutations_(Len(cm)) :
        \A q \in Permutations_(Len(cm)) : perm_cost(cm, p) <= perm_cost(cm, q)}

\* The value of the variable assignments: not computed, Python's None, or a
\* list of (giver group, receiver group) pairs.
Unset == [kind |-> "unset", pairs |-> <<>>]
None == [kind |-> "none", pairs |-> <<>>]
Some(pairs) == [kind |-> "pairs", pairs |-> pairs]

\* Lines 121-126 without the sentinel test of lines 123-124.
pairs_of_unchecked(members_, cm, p) ==
    Some([i \in DOMAIN cm |-> <<givers_of(members_)[i], givers_of(members_)[p[i]]>>])

\* Lines 121-126 for the permutation the solver returned.
pairs_of(members_, cm, p) ==
    LET givers == givers_of(members_)
    IN  IF \E i \in DOMAIN cm : cm[i][p[i]] = impossible_assignment_weight
        THEN None
        ELSE Some([i \in DOMAIN cm |-> <<givers[i], givers[p[i]]>>])

\* Every value find_assignments may return.
find_assignments(members_, candidates_) ==
    LET cm == cost_matrix_of(members_, candidates_)
    IN  {pairs_of(members_, cm, p) : p \in linear_sum_assignment(cm)}

\* ------------------------------------------------------- history directory
\* A file name of the history directory: f"{year}.json" (line 50) or
\* f"{year}_compromises.txt" (line 195).
history_file_for_year(y) == <<y, ".json">>
compromises_file_for_year(y) == <<y, "_compromises.txt">>

\* filename.endswith(".json"), line 34.
is_json(filename) == filename[2] = ".json"

\* A driver that never finds the year's file.
history_file_never_exists(files_, y) == FALSE

\* os.path.exists(year_history_path), line 173.
history_file_exists(files_, y) == history_file_for_year(y) \in DOMAIN files_

\* The .json names of os.listdir(history_dir), lines 33-34, in each order the
\* file system may list them in.
listdir_json(files_) ==
    LET names == {name \in DOMAIN files_ : is_json(name)}
        n == Cardinality(names)
    IN  {l \in [1..n -> names] : \A i, j \in 1..n : l[i] = l[j] => i = j}

\* Lines 35-46 over the listed .json files: their records, in that order.
RECURSIVE load_records(_, _)
load_records(files_, listing) ==
    IF listing = <<>> THEN <<>>
    ELSE <<files_[Head(listing)]>> \o load_records(files_, Tail(listing))

\* load_history, lines 26-47: a missing directory gives the empty history.
load_history(exists, files_, listing) ==
    IF ~exists THEN <<>> ELSE load_records(files_, listing)

\* for g in giver_group: for r in receiver_group (lines 57-59, 189-190).
RECURSIVE pairs_with(_, _)
pairs_with(g, rs) ==
    IF rs = <<>> THEN <<>> ELSE <<<<g, Head(rs)>>>> \o pairs_with(g, Tail(rs))

RECURSIVE group_product(_, _)
group_product(gs, rs) ==
    IF gs = <<>> THEN <<>> ELSE pairs_with(Head(gs), rs) \o group_product(Tail(gs), rs)

\* flat_pairs of save_history, lines 55-59.
RECURSIVE flat_pairs(_)
flat_pairs(pairs) ==
    IF pairs = <<>> THEN <<>>
    ELSE group_product(Head(pairs)[1], Head(pairs)[2]) \o flat_pairs(Tail(pairs))

\* save_history, lines 52-61: the directory after the year's file is written.
save_history(files_, y, pairs) ==
    (history_file_for_year(y) :> [year |-> y, pairs |-> flat_pairs(pairs)]) @@ files_

\* Lines 191-193 for one individual pair: one line per record that holds it.
RECURSIVE compromises_of_pair(_, _)
compromises_of_pair(gr, records) ==
    IF records = <<>> THEN <<>>
    ELSE (IF \E k \in DOMAIN Head(records).pairs : Head(records).pairs[k] = gr
          THEN <<<<gr[1], gr[2], Head(records).year>>>> ELSE <<>>)
         \o compromises_of_pair(gr, Tail(records))

\* Lines 187-193 over the flattened pairs.
RECURSIVE compromises_of(_, _)
compromises_of(flat, records) ==
    IF flat = <<>> THEN <<>>
    ELSE compromises_of_pair(Head(flat), records) \o compromises_of(Tail(flat), records)

\* Lines 194-198: the compromises file is written only when there is a line.
write_compromises(files_, y, compromises) ==
    IF compromises # <<>>
    THEN (compromises_file_for_year(y) :> compromises) @@ files_
    ELSE files_

\* A test that lets None through: only the empty list stops the run.
not_assignments_only_empty(a) == a.kind # "none" /\ a.pairs = <<>>

\* `not assignments`, line 180: None and the empty list are both falsy.
not_assignments(a) == a.kind = "none" \/ a.pairs = <<>>

\* Lines 203-234: the first `sends` messages of the run, (giver, receiver)
\* in the order of the assignments.
messages(a, sends) == SubSeq(a.pairs, 1, sends)

\* ------------------------------------------------------------------- state
VARIABLES
    members,      \* config_data["members"]: the roster in the config file
    history,      \* history["assignments"]: the records the last run loaded
    candidates,   \* the value build_weighted_candidates returned
    assignments,  \* the value find_assignments returned
    pc,           \* how far the computation got, or how the last run ended
    dir_exists,   \* whether the history directory exists
    files,        \* the history directory: file name -> content
    year,         \* args.year of the last run
    notified      \* the messages the last run printed or sent

vars == <<members, history, candidates, assignments, pc, dir_exists, files, year, notified>>

\* ------------------------------------------------------------------ inputs
SeqsOfLen(S, n) == [1..n -> S]

\* A member: its group as listed in the config and its exclusion list.
MembersOfSize(t) ==
    UNION {{[group |-> g, exclude |-> e] :
                g \in SeqsOfLen(Ids, l),
                e \in {x \in SUBSET Ids : Cardinality(x) = t - l}} : l \in 1..t}

RECURSIVE RostersOfSize(_)
RostersOfSize(s) ==
    IF s = 0 THEN {<<>>}
    ELSE UNION {{Append(r, m) : r \in RostersOfSize(s - t), m \in MembersOfSize(t)} :
                    t \in 1..s}

\* The individual pairs a record may hold.
PersonPairs == {p \in Ids \X Ids : p[1] # p[2]}

RecordsOfSize(t) == [year : Years, pairs : SeqsOfLen(PersonPairs, t - 1)]

RECURSIVE HistoriesOfSize(_)
HistoriesOfSize(s) ==
    IF s = 0 THEN {<<>>}
    ELSE UNION {{Append(h, r) : h \in HistoriesOfSize(s - t), r \in RecordsOfSize(t)} :
                    t \in 1..s}

\* One record a year, as the driver keeps it.
DistinctYears(h) == \A j, k \in DOMAIN h : h[j].year = h[k].year => j = k

RostersBySize == [a \in 0..MaxInputSize |-> RostersOfSize(a)]

HistoriesBySize ==
    [b \in 0..MaxInputSize |-> {x \in HistoriesOfSize(b) : DistinctYears(x)}]

HistoriesUpTo == [b \in 0..MaxInputSize |-> UNION {HistoriesBySize[c] : c \in 0..b}]

\* The inputs of the pure functions: a roster and a history, MaxInputSize in all.
CoreInputs ==
    UNION {RostersBySize[a] \X HistoriesUpTo[MaxInputSize - a] : a \in 0..MaxInputSize}

NoCandidates == <<>>
NoFiles == <<>>

\* ------------------------------------------ the two pure functions, applied
InitCore ==
    /\ \E input \in CoreInputs :
          /\ members = input[1]
          /\ history = input[2]
    /\ candidates = NoCandidates
    /\ assignments = Unset
    /\ pc = "start"
    /\ dir_exists = FALSE
    /\ files = NoFiles
    /\ year = 2020
    /\ notified = <<>>

\* build_weighted_candidates(year, members, history), lines 64-104.
BuildWeightedCandidates ==
    /\ pc = "start"
    /\ history # <<>>
    /\ candidates' = build_weighted_candidates(members, history)
    /\ pc' = "built"
    /\ UNCHANGED <<members, history, assignments, dir_exists, files, year, notified>>

\* The same call on an empty history: min() of an empty sequence raises
\* ValueError at line 71.
BuildRaisesValueError ==
    /\ pc = "start"
    /\ history = <<>>
    /\ pc' = "ValueError"
    /\ UNCHANGED <<members, history, candidates, assignments, dir_exists, files,
                   year, notified>>

\* find_assignments(members, candidates), lines 106-126.
FindAssignments ==
    /\ pc = "built"
    /\ \E result \in find_assignments(members, candidates) :
          assignments' = result
    /\ pc' = "solved"
    /\ UNCHANGED <<members, history, candidates, dir_exists, files, year, notified>>

NextCore == BuildWeightedCandidates \/ BuildRaisesValueError \/ FindAssignments

SpecCore == InitCore /\ [][NextCore]_vars

\* --------------------------------------------------------------- the driver
\* The rosters a config file may hold.
ConfigRosters == UNION {RostersOfSize(a) : a \in 0..MaxConfigSize}

\* The files of a hand-made history: each record in the file of its year.
seed_files(h) ==
    [name \in {history_file_for_year(h[k].year) : k \in DOMAIN h} |->
        h[CHOOSE k \in DOMAIN h : history_file_for_year(h[k].year) = name]]

SeedHistories ==
    UNION {{x \in HistoriesOfSize(b) : DistinctYears(x)} : b \in 0..MaxSeedSize}

\* Before the first run: a config file with some roster, and no history
\* directory or one holding hand-made records.
Init ==
    /\ \/ /\ dir_exists = FALSE
          /\ files = NoFiles
       \/ /\ dir_exists = TRUE
          /\ \E h \in SeedHistories : files = seed_files(h)
    /\ members \in ConfigRosters
    /\ history = <<>>
    /\ candidates = NoCandidates
    /\ assignments = Unset
    /\ pc = "idle"
    /\ year = 2020
    /\ notified = <<>>

\* One run of main(), lines 147-234, is one of the five actions below; its
\* inputs are --year, --dry-run, the order os.listdir lists the records in, and
\* how many messages go out before one fails.

\* Lines 155-157: the --config path names no file; nothing else is touched.
main_missing_config ==
    \E arg_year \in Years :
        /\ pc' = "missing_config"
        /\ year' = arg_year
        /\ history' = <<>>
        /\ candidates' = NoCandidates
        /\ assignments' = Unset
        /\ notified' = <<>>
        /\ UNCHANGED <<members, dir_exists, files>>

\* Lines 169-175: the year's record is there already.
main_already_exists ==
    \E arg_year \in Years, listing \in listdir_json(files) :
        /\ history_file_exists(files, arg_year)
        /\ pc' = "already_exists"
        /\ year' = arg_year
        /\ history' = load_history(dir_exists, files, listing)
        /\ candidates' = NoCandidates
        /\ assignments' = Unset
        /\ notified' = <<>>
        /\ dir_exists' = TRUE
        /\ UNCHANGED <<members, files>>

\* Lines 169-177 when no record was loaded: load_history has made the
\* directory, and min() raises ValueError inside build_weighted_candidates.
main_value_error ==
    \E arg_year \in Years, listing \in listdir_json(files) :
        /\ ~history_file_exists(files, arg_year)
        /\ load_history(dir_exists, files, listing) = <<>>
        /\ pc' = "ValueError"
        /\ year' = arg_year
        /\ history' = <<>>
        /\ candidates' = NoCandidates
        /\ assignments' = Unset
        /\ notified' = <<>>
        /\ dir_exists' = TRUE
        /\ UNCHANGED <<members, files>>

\* Lines 169-182: the solver's result is falsy.
main_no_valid_assignment ==
    \E arg_year \in Years, listing \in listdir_json(files) :
        LET loaded == load_history(dir_exists, files, listing)
        IN  /\ ~history_file_exists(files, arg_year)
            /\ loaded # <<>>
            /\ candidates' = build_weighted_candidates(members, loaded)
            /\ \E result \in find_assignments(members, candidates') :
                  /\ not_assignments(result)
                  /\ assignments' = result
            /\ pc' = "no_valid_assignment"
            /\ year' = arg_year
            /\ history' = loaded
            /\ notified' = <<>>
            /\ dir_exists' = TRUE
            /\ UNCHANGED <<members, files>>

\* Lines 169-234: the record is saved, the compromises are written, and the
\* messages go out until one fails (sends of them succeed; a dry run prints
\* them all).
main_assign ==
    \E arg_year \in Years, listing \in listdir_json(files), dry_run \in BOOLEAN :
        LET loaded == load_history(dir_exists, files, listing)
        IN  /\ ~history_file_exists(files, arg_year)
            /\ loaded # <<>>
            /\ candidates' = build_weighted_candidates(members, loaded)
            /\ \E result \in find_assignments(members, candidates') :
                  /\ ~not_assignments(result)
                  /\ assignments' = result
                  /\ files' = write_compromises(
                                  save_history(files, arg_year, result.pairs), arg_year,
                                  compromises_of(flat_pairs(result.pairs), loaded))
                  /\ \E sends \in 0..Len(result.pairs) :
                        /\ dry_run => sends = Len(result.pairs)
                        /\ notified' = messages(result, sends)
                        /\ pc' = IF sends = Len(result.pairs) THEN "done"
                                                              ELSE "notify_failed"
            /\ year' = arg_year
            /\ history' = loaded
            /\ dir_exists' = TRUE
            /\ UNCHANGED members

Next ==
    \/ main_missing_config
    \/ main_already_exists
    \/ main_value_error
    \/ main_no_valid_assignment
    \/ main_assign

Spec == Init /\ [][Next]_vars

\* ------------------------------------------------------- claims: vocabulary
Range(s) == {s[i] : i \in DOMAIN s}

RECURSIVE SumSeq(_)
SumSeq(s) == IF s = <<>> THEN 0 ELSE Head(s) + SumSeq(Tail(s))

RECURSIVE SumOver(_, _)
SumOver(S, f) ==
    IF S = {} THEN 0
    ELSE LET x == CHOOSE x \in S : TRUE IN f[x] + SumOver(S \ {x}, f)

\* The groups of the roster.
RosterGroups == {group_key(members[i]) : i \in DOMAIN members}

\* The candidates reported for giver group g with receiver group r.
CandidatesFor(g, r) == {c \in Range(candidates[g]) : c[1] = r}
IsCandidate(g, r) == g \in DOMAIN candidates /\ CandidatesFor(g, r) # {}
CandidateWeight(g, r) == (CHOOSE c \in CandidatesFor(g, r) : TRUE)[2]

\* The perfect matchings of the constraint graph: the one-to-one maps of the
\* roster's groups onto themselves along candidate pairs.
PerfectMatchings ==
    {m \in [RosterGroups -> RosterGroups] :
        /\ \A g, h \in RosterGroups : m[g] = m[h] => g = h
        /\ \A g \in RosterGroups : IsCandidate(g, m[g])}

MatchingWeight(m) == SumOver(RosterGroups, [g \in RosterGroups |-> CandidateWeight(g, m[g])])

Returned == pc = "solved" /\ assignments.kind = "pairs"

\* The sum of the candidate weights of the returned pairs.
ResultWeight ==
    SumSeq([i \in DOMAIN assignments.pairs |->
               CandidateWeight(assignments.pairs[i][1], assignments.pairs[i][2])])

\* The sum of the cost-matrix cells the returned pairs stand for.
ResultCost ==
    LET cm == cost_matrix_of(members, candidates)
        givers == givers_of(members)
    IN  SumSeq([i \in DOMAIN assignments.pairs |->
                   cm[i][index_of(givers, assignments.pairs[i][2])]])

\* ---------------------------------------------------------------- claim C1
\* C1: whenever find_assignments returns a result it is a perfect matching over
\* the roster's groups: every group is exactly once a giver and exactly once a
\* receiver, every returned pair is one of the giver's candidates (never the
\* giver itself, never a group with an identifier the giver excludes), and the
\* cost of the result is the sum of the candidate weights of the returned pairs.
C1_ResultIsPerfectMatching ==
    Returned =>
        LET ps == assignments.pairs
        IN  /\ \A i \in DOMAIN ps : ps[i][1] \in RosterGroups /\ ps[i][2] \in RosterGroups
            /\ \A g \in RosterGroups :
                  /\ Cardinality({i \in DOMAIN ps : ps[i][1] = g}) = 1
                  /\ Cardinality({i \in DOMAIN ps : ps[i][2] = g}) = 1
            /\ \A i \in DOMAIN ps :
                  /\ IsCandidate(ps[i][1], ps[i][2])
                  /\ ps[i][1] # ps[i][2]
                  /\ ps[i][1] = givers_of(members)[i]
                  /\ \A x \in Range(ps[i][2]) : x \notin members[i].exclude
            /\ ResultCost = ResultWeight

\* A returned matching of several groups that repeats a past pairing.
C1_Witness == Returned /\ Len(assignments.pairs) >= 2 /\ ResultWeight > 0

\* ---------------------------------------------------------------- claim C2
\* C2: find_assignments returns None exactly when the constraint graph (the
\* candidate pairs, self and excluded pairings removed) has no perfect matching.
C2_NoneIffNoPerfectMatching ==
    pc = "solved" => (assignments.kind = "none" <=> PerfectMatchings = {})

\* ---------------------------------------------------------------- claim C3
\* C3: a returned matching has the least total weight of all perfect matchings
\* made of candidate pairs; for the groups A, B, C with the one past pair (A, B)
\* the result weighs 0 and does not pair A with B.
ExampleRoster ==
    <<[group |-> <<1>>, exclude |-> {}], [group |-> <<2>>, exclude |-> {}],
      [group |-> <<3>>, exclude |-> {}]>>
ExampleHistory == <<[year |-> 2020, pairs |-> <<<<1, 2>>>>]>>

C3_ResultIsMinimum ==
    /\ Returned => \A m \in PerfectMatchings : ResultWeight <= MatchingWeight(m)
    /\ (pc = "solved" /\ members = ExampleRoster /\ history = ExampleHistory) =>
          /\ assignments.kind = "pairs"
          /\ ResultWeight = 0
          /\ <<<<1>>, <<2>>>> \notin Range(assignments.pairs)

\* The example, solved, with a dearer perfect matching left aside.
C3_Witness ==
    /\ Returned
    /\ members = ExampleRoster
    /\ history = ExampleHistory
    /\ \E m \in PerfectMatchings : MatchingWeight(m) > ResultWeight

\* ---------------------------------------------------------------- claim C4
Built == pc \in {"built", "solved"}

\* The earliest year of a history.
EarliestYear(h) ==
    CHOOSE y \in {h[k].year : k \in DOMAIN h} : ~\E k \in DOMAIN h : h[k].year < y

\* Every way an individual pair (G[i], R[j]) occurs in a record of h:
\* <<i, j, record, position in the record's pairs>>.
Occurrences(G, R, h) ==
    UNION {UNION {{<<i, j, k, p>> :
                      i \in {x \in DOMAIN G : G[x] = h[k].pairs[p][1]},
                      j \in {y \in DOMAIN R : R[y] = h[k].pairs[p][2]}} :
                  p \in DOMAIN h[k].pairs} : k \in DOMAIN h}

ExpectedWeight(G, R, h) ==
    LET occ == Occurrences(G, R, h)
    IN  SumOver(occ, [o \in occ |-> h[o[3]].year - EarliestYear(h) + 1])

WeightFormula ==
    Built => \A G \in DOMAIN candidates : \A c \in Range(candidates[G]) :
                 c[2] = ExpectedWeight(G, c[1], history)

\* The histories with one pair occurrence in all, and that occurrence's record.
SingleOccurrence(h) == SumSeq([k \in DOMAIN h |-> Len(h[k].pairs)]) = 1
OccurrenceRecord(h) == CHOOSE k \in DOMAIN h : h[k].pairs # <<>>

\* The same history with the occurrence moved to the year y.
Moved(h, y) == [h EXCEPT ![OccurrenceRecord(h)].year = y]

\* The later years the occurrence can move to, no other record being of that year.
LaterYears(h) ==
    {y \in Years : /\ y > h[OccurrenceRecord(h)].year
                   /\ \A k \in DOMAIN h : h[k].year # y}

\* The candidates (giver group, receiver group) the occurrence weighs on.
Weighed(h) ==
    LET gr == h[OccurrenceRecord(h)].pairs[1]
    IN  {x \in RosterGroups \X RosterGroups :
            /\ IsCandidate(x[1], x[2])
            /\ gr[1] \in Range(x[1])
            /\ gr[2] \in Range(x[2])}

WeightAfterMove(x, y) ==
    LET moved == build_weighted_candidates(members, Moved(history, y))
    IN  (CHOOSE c \in Range(moved[x[1]]) : c[1] = x[2])[2]

\* C4 as stated: the weight is the sum over the occurrences of
\* (year - min_year + 1), and of two single-occurrence histories that differ
\* only in the year, the more recent one gives the strictly larger weight.
C4_RecencyStrictlyLarger ==
    /\ WeightFormula
    /\ (Built /\ SingleOccurrence(history)) =>
          \A y \in LaterYears(history) : \A x \in Weighed(history) :
              WeightAfterMove(x, y) > CandidateWeight(x[1], x[2])

\* C4, amended: the weight is the sum over the occurrences of
\* (year - min_year + 1); of two single-occurrence histories that differ only
\* in the year, the more recent one gives the strictly larger weight when the
\* history holds another record earlier than the more recent year, and the
\* same weight otherwise (the occurrence's own year is then the baseline).
C4_WeightFormulaAndRecency ==
    /\ WeightFormula
    /\ (Built /\ SingleOccurrence(history)) =>
          \A y \in LaterYears(history) : \A x \in Weighed(history) :
              IF \E k \in DOMAIN history :
                     k # OccurrenceRecord(history) /\ history[k].year < y
              THEN WeightAfterMove(x, y) > CandidateWeight(x[1], x[2])
              ELSE WeightAfterMove(x, y) = CandidateWeight(x[1], x[2])

\* A single occurrence one year after the baseline, weighing 2, that can move
\* to a later year.
C4_Witness ==
    /\ Built
    /\ Len(history) = 2
    /\ SingleOccurrence(history)
    /\ LaterYears(history) # {}
    /\ \E x \in Weighed(history) :
          /\ CandidateWeight(x[1], x[2]) = 2
          /\ \A y \in LaterYears(history) : WeightAfterMove(x, y) > 2

\* ---------------------------------------------------------------- claim C5
\* C5: for every roster member M, the candidate list of M's group holds
\* neither M's own group nor a group with an identifier M excludes, and holds
\* every other group of the roster.
C5_NoSelfNoExcluded ==
    Built =>
        \A i \in DOMAIN members :
            LET G == group_key(members[i])
                excluded(R) == \E x \in Range(R) : x \in members[i].exclude
            IN  /\ \A c \in Range(candidates[G]) : c[1] # G /\ ~excluded(c[1])
                /\ \A R \in RosterGroups :
                      (R # G /\ ~excluded(R)) => IsCandidate(G, R)

\* ---------------------------------------------------------------- claim C6
\* C6: the sentinel is strictly larger than every candidate weight and than the
\* total weight of every feasible perfect matching.
C6_SentinelDominates ==
    Built =>
        /\ \A G \in DOMAIN candidates : \A c \in Range(candidates[G]) :
              c[2] < impossible_assignment_weight
        /\ \A m \in PerfectMatchings : MatchingWeight(m) < impossible_assignment_weight

\* ---------------------------------------------------------------- claim C7
\* The roster without the entries whose group a later entry repeats.
RECURSIVE WithoutDuplicates(_)
WithoutDuplicates(ms) ==
    IF ms = <<>> THEN <<>>
    ELSE IF \E k \in 2..Len(ms) : group_key(ms[k]) = group_key(Head(ms))
         THEN WithoutDuplicates(Tail(ms))
         ELSE <<Head(ms)>> \o WithoutDuplicates(Tail(ms))

HasDuplicates == Cardinality(RosterGroups) < Len(members)

\* C7: members whose groups normalize to the same sorted tuple are one party:
\* the cost matrix has one row and one column for the group, and the duplicate
\* entry changes neither whether an assignment is found nor which groups are
\* paired.
C7_DuplicatesAreOneParty ==
    (pc = "solved" /\ HasDuplicates) =>
        /\ Len(cost_matrix_of(members, candidates)) = Cardinality(RosterGroups)
        /\ assignments \in
              find_assignments(WithoutDuplicates(members),
                               build_weighted_candidates(WithoutDuplicates(members),
                                                         history))

\* ---------------------------------------------------------------- claim C8
\* C8: a run whose loaded history has no records does not fail in the
\* baseline-year computation: it is rejected before build_weighted_candidates,
\* or the function completes with every candidate weight 0.
C8_EmptyHistoryDoesNotFail ==
    (history = <<>> /\ pc \notin {"idle", "missing_config", "already_exists"}) =>
        /\ pc # "ValueError"
        /\ \A G \in DOMAIN candidates : \A c \in Range(candidates[G]) : c[2] = 0

\* ---------------------------------------------------------------- claim C9
\* C9: when find_assignments returns None the run reports it and does nothing
\* else: the history directory and its files are as they were and no message
\* is printed or sent.
C9_InfeasibleRunChangesNothing ==
    [][assignments'.kind = "none" =>
          /\ pc' = "no_valid_assignment"
          /\ files' = files
          /\ dir_exists' = dir_exists
          /\ notified' = <<>>]_vars

\* An infeasible run of a roster of several members over a loaded history.
C9_Witness ==
    /\ pc = "no_valid_assignment"
    /\ assignments.kind = "none"
    /\ Len(members) >= 2
    /\ history # <<>>

\* --------------------------------------------------------------- claim C10
JsonFiles(files_) == {name \in DOMAIN files_ : is_json(name)}

OneRecordPerYear ==
    \A f, g \in JsonFiles(files) : files[f].year = files[g].year => f = g

\* C10: over any sequence of runs the history holds at most one record per
\* year, a record once created is never changed or replaced, and a run for a
\* year whose record exists stops before computing or saving anything.
C10_RecordsAreImmutable ==
    /\ []OneRecordPerYear
    /\ [][/\ \A name \in JsonFiles(files) :
                name \in DOMAIN files' /\ files'[name] = files[name]
          /\ history_file_for_year(year') \in DOMAIN files =>
                /\ pc' \in {"already_exists", "missing_config"}
                /\ candidates' = NoCandidates
                /\ assignments' = Unset
                /\ files' = files]_vars

\* A run stopped by the record an earlier run saved for its year.
C10_Witness ==
    /\ pc = "already_exists"
    /\ history_file_for_year(year) \in DOMAIN files
    /\ Len(files[history_file_for_year(year)].pairs) >= 2
    /\ Cardinality(JsonFiles(files)) >= 2

====
